---- MODULE Spec2Model ----
(***************************************************************************)
(* Model of tracer.go (package tracergo): span factories, the outbound     *)
(* propagation bridge (InjectTrace) and the nil-safe tag/log/baggage       *)
(* helpers.                                                                *)
(*                                                                         *)
(* A span is modelled at the opentracing.Span interface: its tags, logs,   *)
(* baggage and finished flag are what the helpers hand to the span through *)
(* SetTag, LogFields, SetBaggageItem and Finish.  Sampling, buffering and  *)
(* delivery inside the tracer are not modelled.                            *)
(***************************************************************************)
EXTENDS Integers, Sequences, FiniteSets, TLC

(* ------------------------------ bounds --------------------------------- *)
\* number of spans a behaviour may create
MaxSpans == 2
\* number of marks (tags, logs, baggage items, finishes) the spans may hold in
\* total before the helpers stop adding to them
MaxEntries == 2

(* ------------------------- program constants --------------------------- *)
TraceIDKey == "X-Ab-TraceID"

forwardHeaders ==
    << "x-request-id", "x-ot-span-context", "x-cloud-trace-context",
       "traceparent", "grpc-trace-bin" >>

\* names written by the B3 propagator installed for HTTP headers
B3Names == { "x-b3-traceid", "x-b3-spanid", "x-b3-parentspanid", "x-b3-sampled" }

\* the one baggage key of the model and the header the propagator prefixes it to
BagKey == "k"
BaggageHeader == "baggage-k"

\* header of the tracer's own (jaeger) propagation format
NativeHeader == "uber-trace-id"

Range(s) == { s[i] : i \in 1..Len(s) }

HeaderNames ==
    Range(forwardHeaders) \cup B3Names
        \cup { TraceIDKey, NativeHeader, BaggageHeader, "x-other" }

(* ------------------------- http.Header ---------------------------------- *)
\* a header collection maps a name to its list of values; <<>> is "not present"
NoHeaders == [ k \in HeaderNames |-> <<>> ]

\* http.Header.Get: the first value, "" when there is none
Get(h, k) == IF h[k] = <<>> THEN "" ELSE h[k][1]

\* http.Header.Set: replaces all values by the single given one
Set(h, k, v) == [ h EXCEPT ![k] = << v >> ]

(* ------------------------- handles -------------------------------------- *)
NilSpan == 0        \* an absent opentracing.Span
NilCtx == -1        \* a nil context.Context
EmptyCtx == 0       \* a non-nil context that holds no span; n > 0 holds span n
NoErr == "<nil>"    \* a nil error

(* ------------------------- span contexts -------------------------------- *)
NoBag == "<none>"   \* no baggage item under BagKey
NoContext == [ kind |-> "none", trace |-> 0, span |-> 0, sampled |-> FALSE, bag |-> NoBag ]

\* strconv.ParseUint(s, 16, 64) / jaeger.TraceIDFromString over the values used here;
\* -1 stands for a parse error
ParseHex(s) ==
    CASE s = "0" -> 0
      [] s = "1" -> 1
      [] s = "2" -> 2
      [] s = "5" -> 5
      [] s = "6" -> 6
      [] OTHER -> -1

\* SpanID.String / TraceID.String for the identifiers the model uses
HexString(n) ==
    CASE n = 0 -> "0"
      [] n = 1 -> "1"
      [] n = 2 -> "2"
      [] n = 5 -> "5"
      [] n = 6 -> "6"
      [] n = 11 -> "b"
      [] n = 12 -> "c"
      [] n = 13 -> "d"
      [] n = 14 -> "e"
      [] n = 101 -> "65"
      [] n = 102 -> "66"
      [] n = 103 -> "67"
      [] n = 104 -> "68"
      [] OTHER -> "?"

\* jaeger.ContextFromString: "trace:span:parent:flags", anything else is an error
ContextFromString(s) ==
    CASE s = "1:5:0:1" ->
            [ err |-> FALSE,
              ctx |-> [ kind |-> "jaeger", trace |-> 1, span |-> 5, sampled |-> TRUE, bag |-> NoBag ] ]
      [] s = "2:6:0:0" ->
            [ err |-> FALSE,
              ctx |-> [ kind |-> "jaeger", trace |-> 2, span |-> 6, sampled |-> FALSE, bag |-> NoBag ] ]
      [] OTHER -> [ err |-> TRUE, ctx |-> NoContext ]

\* the last value of a header, as the propagator's ForeachKey loop leaves it
LastValue(h, k) == h[k][Len(h[k])]

\* Extract of the B3 propagator that InitGlobalTracer registers for HTTP headers
ZipkinExtract(h) ==
    LET t == IF h["x-b3-traceid"] = <<>> THEN 0 ELSE ParseHex(LastValue(h, "x-b3-traceid"))
        s == IF h["x-b3-spanid"] = <<>> THEN 0 ELSE ParseHex(LastValue(h, "x-b3-spanid"))
        smp == h["x-b3-sampled"] # <<>> /\ LastValue(h, "x-b3-sampled") \in { "1", "true" }
        bg == IF h[BaggageHeader] = <<>> THEN NoBag ELSE LastValue(h, BaggageHeader)
    IN  IF t = -1 \/ s = -1 THEN [ err |-> TRUE, ctx |-> NoContext ]
        ELSE IF t = 0 THEN [ err |-> TRUE, ctx |-> NoContext ]
        ELSE [ err |-> FALSE,
               ctx |-> [ kind |-> "jaeger", trace |-> t, span |-> s, sampled |-> smp, bag |-> bg ] ]

\* opentracing.GlobalTracer().Extract(HTTPHeaders, carrier)
Extract(tracer, h) ==
    IF tracer = "jaeger" THEN ZipkinExtract(h)
    ELSE [ err |-> TRUE, ctx |-> NoContext ]

(* ------------------------- state ---------------------------------------- *)
VARIABLES
    globalTracer,   \* the tracer opentracing.GlobalTracer() returns: "noop" | "jaeger"
    spans,          \* every span started so far; a span handle is its index
    faulted,        \* TRUE once a method was invoked on an absent span (a nil dereference)
    last            \* the most recent call: its arguments and what it returned

vars == << globalTracer, spans, faulted, last >>

NoCall ==
    [ op |-> "none", inHdr |-> NoHeaders, out0 |-> NoHeaders, out1 |-> NoHeaders,
      ctx0 |-> NilCtx, span0 |-> NilSpan, key |-> "", val |-> "",
      span1 |-> NilSpan, ctx1 |-> NilCtx, err |-> NoErr, n0 |-> 0, gt |-> "noop" ]

\* span.Context()
ContextOf(sp) ==
    [ kind |-> sp.tracer, trace |-> sp.trace, span |-> sp.id,
      sampled |-> sp.sampled, bag |-> sp.bag ]

\* SpanContext.IsValid of the jaeger client
IsValid(c) == c.kind = "jaeger" /\ c.trace # 0 /\ c.span # 0

\* Tracer.StartSpan(name, ChildOf(ref)) of the given tracer, for the n-th span of the
\* run; ref = NoContext stands for "no reference".  A new trace or span identifier
\* is fresh: it differs from every identifier seen so far.
TracerStartSpan(tracer, name, ref, n) ==
    IF tracer = "noop" THEN
        [ tracer |-> "noop", trace |-> 0, id |-> 0, parent |-> 0, name |-> name,
          sampled |-> FALSE, tags |-> <<>>, logs |-> <<>>, bag |-> NoBag,
          finished |-> FALSE ]
    ELSE
        LET hasParent == ref.kind = "jaeger" /\ (IsValid(ref) \/ ref.bag # NoBag)
            child == hasParent /\ IsValid(ref)
        IN  [ tracer |-> "jaeger",
              trace |-> IF child THEN ref.trace ELSE 100 + n,
              id |-> 10 + n,
              parent |-> IF child THEN ref.span ELSE 0,
              name |-> name,
              sampled |-> IF child THEN ref.sampled ELSE TRUE,
              tags |-> <<>>, logs |-> <<>>,
              bag |-> IF hasParent THEN ref.bag ELSE NoBag,
              finished |-> FALSE ]

\* opentracing.StartSpan(name, opts...): the global tracer starts the next span of
\* store ss
GlobalStartSpan(ss, name, ref) ==
    TracerStartSpan(globalTracer, name, ref, Len(ss) + 1)

\* Inject of the B3 propagator: the headers it writes for a span context
ZipkinInject(c, h) ==
    LET h1 == Set(h, "x-b3-traceid", HexString(c.trace))
        h2 == IF c.parent # 0 THEN Set(h1, "x-b3-parentspanid", HexString(c.parent)) ELSE h1
        h3 == Set(h2, "x-b3-spanid", HexString(c.id))
        h4 == Set(h3, "x-b3-sampled", IF c.sampled THEN "1" ELSE "0")
    IN  IF c.bag # NoBag THEN Set(h4, BaggageHeader, c.bag) ELSE h4

\* Tracer.Inject(span.Context(), HTTPHeaders, carrier) of the given tracer: the
\* jaeger tracer rejects a context that is not its own, the noop tracer does nothing
Inject(tracer, sp, h) ==
    IF tracer = "noop" THEN [ err |-> NoErr, hdr |-> h ]
    ELSE IF sp.tracer # "jaeger" THEN
        [ err |-> "opentracing: SpanContext type incompatible with tracer", hdr |-> h ]
    ELSE [ err |-> NoErr, hdr |-> ZipkinInject(sp, h) ]

\* span.SetTag(key, value)
SetTag(sp, k, v) == [ sp EXCEPT !.tags = Append(@, << k, v >>) ]

\* span.LogFields(log.String(key, value))
LogFields(sp, k, v) == [ sp EXCEPT !.logs = Append(@, << k, v >>) ]

\* span.SetBaggageItem(key, value), for the one baggage key
SetBaggageItem(sp, k, v) == [ sp EXCEPT !.bag = v ]

\* total number of marks held by all spans: tags, logs, a baggage item, a finish
RECURSIVE Entries(_)
Entries(ss) ==
    IF ss = <<>> THEN 0
    ELSE Len(Head(ss).tags) + Len(Head(ss).logs)
           + (IF Head(ss).bag # NoBag THEN 1 ELSE 0)
           + (IF Head(ss).finished THEN 1 ELSE 0) + Entries(Tail(ss))

(* ------------------------- inputs --------------------------------------- *)
Handles == 1..Len(spans)
SpanArgs == { NilSpan } \cup Handles
CtxArgs == { NilCtx, EmptyCtx } \cup Handles

\* the span a context holds (opentracing.SpanFromContext)
SpanFromContext(ctx) == IF ctx > 0 THEN ctx ELSE NilSpan

\* opentracing.ContextWithSpan
ContextWithSpan(ctx, s) == s

\* inbound requests: one forwarded-header choice, one X-Ab-TraceID choice, an
\* unrelated header or not, and one trace-context choice
FwdChoices ==
    { << "", <<>> >>,
      << "x-request-id", << "" >> >>,
      << "x-request-id", << "abc123" >> >>,
      << "x-request-id", << "abc123", "def456" >> >>,
      << "grpc-trace-bin", << "bin" >> >> }

TraceIDChoices == { <<>>, << "" >>, << "T1" >> }

TraceCtxChoices == { "none", "native", "b3", "b3bad", "b3nospan" }

WithForward(h, f) == IF f[1] = "" THEN h ELSE [ h EXCEPT ![f[1]] = f[2] ]

WithTraceCtx(h, c) ==
    CASE c = "native" -> [ h EXCEPT ![NativeHeader] = << "1:5:0:1" >> ]
      [] c = "b3" -> [ h EXCEPT !["x-b3-traceid"] = << "1" >>,
                                !["x-b3-spanid"] = << "5" >>,
                                !["x-b3-sampled"] = << "1" >> ]
      [] c = "b3bad" -> [ h EXCEPT !["x-b3-traceid"] = << "zz" >>,
                                   !["x-b3-spanid"] = << "5" >> ]
      [] c = "b3nospan" -> [ h EXCEPT !["x-b3-traceid"] = << "1" >> ]
      [] OTHER -> h

Request(f, t, o, c) ==
    WithTraceCtx(
        WithForward([ NoHeaders EXCEPT ![TraceIDKey] = t, !["x-other"] = o ], f), c)

\* requests offered to the span factories: every trace context, with and without
\* the application trace id
InRequests ==
    { Request(<< "", <<>> >>, t, <<>>, c) : t \in TraceIDChoices, c \in TraceCtxChoices }

\* requests offered to the propagation bridge: every forwarded-header choice, with
\* and without the application trace id, next to headers that are not forwarded
BridgeRequests ==
    { Request(f, t, << "secret" >>, "b3") : f \in FwdChoices, t \in TraceIDChoices }

\* outbound requests as the caller built them, before propagation
OutRequests ==
    { NoHeaders,
      [ NoHeaders EXCEPT !["x-request-id"] = << "mine" >>,
                         !["traceparent"] = << "tp" >>,
                         ![TraceIDKey] = << "T0" >>,
                         !["x-other"] = << "own" >> ] }

Names == { "op" }
Values == { "", "v" }
Errors == { NoErr, "boom" }
Queries == { "", "SELECT 1" }
ContextStrings == { "", "1:5:0:1", "2:6:0:0", "garbage" }

\* request method and host+URI recorded on request spans
Method == "GET"
Url == "svc/path"

(* ------------------------- initial state -------------------------------- *)
\* before InitGlobalTracer, opentracing's global tracer is its NoopTracer
Init ==
    /\ globalTracer = "noop"
    /\ spans = <<>>
    /\ faulted = FALSE
    /\ last = NoCall

\* once main has called InitGlobalTracer, as its comment requires
InitInstalled ==
    /\ globalTracer = "jaeger"
    /\ spans = <<>>
    /\ faulted = FALSE
    /\ last = NoCall

(* ------------------------- InitGlobalTracer ----------------------------- *)
\* installs a jaeger tracer, with the B3 propagator for HTTP headers, as the
\* global tracer
InitGlobalTracer ==
    /\ globalTracer' = "jaeger"
    /\ last' = [ NoCall EXCEPT !.op = "InitGlobalTracer", !.n0 = Len(spans),
                               !.gt = globalTracer ]
    /\ UNCHANGED << spans, faulted >>

(* ------------------------- method calls on a span handle ---------------- *)
\* A machine state st is [spans, faulted].  Calling a method through an absent
\* (nil) span is a nil dereference; through a present one it acts on the span.
Here == [ spans |-> spans, faulted |-> faulted ]

DoSetTag(st, s, k, v) ==
    IF s = NilSpan THEN [ st EXCEPT !.faulted = TRUE ]
    ELSE [ st EXCEPT !.spans[s] = SetTag(@, k, v) ]

DoLogFields(st, s, k, v) ==
    IF s = NilSpan THEN [ st EXCEPT !.faulted = TRUE ]
    ELSE [ st EXCEPT !.spans[s] = LogFields(@, k, v) ]

DoSetBaggageItem(st, s, k, v) ==
    IF s = NilSpan THEN [ st EXCEPT !.faulted = TRUE ]
    ELSE [ st EXCEPT !.spans[s] = SetBaggageItem(@, k, v) ]

DoFinish(st, s) ==
    IF s = NilSpan THEN [ st EXCEPT !.faulted = TRUE ]
    ELSE [ st EXCEPT !.spans[s].finished = TRUE ]

(* ------------------------- Finish, AddLog, AddTag, AddBaggage ----------- *)
Finish(st, s) == IF s # NilSpan THEN DoFinish(st, s) ELSE st

AddLog(st, s, k, v) == IF s # NilSpan THEN DoLogFields(st, s, k, v) ELSE st

\* AddTag without its check for an absent span
AddTagUnguarded(st, s, k, v) == DoSetTag(st, s, k, v)

AddTag(st, s, k, v) == IF s # NilSpan THEN DoSetTag(st, s, k, v) ELSE st

AddBaggage(st, s, k, v) == IF s # NilSpan THEN DoSetBaggageItem(st, s, k, v) ELSE st

\* TraceError that logs the error but leaves the tag out
TraceErrorLogOnly(st, s, e) ==
    IF s # NilSpan /\ e # NoErr THEN AddLog(st, s, "error", e) ELSE st

\* TraceError: a log and a tag, when there is a span and an error
TraceError(st, s, e) ==
    IF s # NilSpan /\ e # NoErr
    THEN AddTag(AddLog(st, s, "error", e), s, "error", "true")
    ELSE st

\* TraceSQLQuery without its check for an empty query
TraceSQLQueryUnguarded(st, s, q) ==
    IF s # NilSpan THEN AddLog(st, s, "SQL", q) ELSE st

\* TraceSQLQuery: a log, when there is a span and a non-empty query
TraceSQLQuery(st, s, q) ==
    IF s # NilSpan /\ q # "" THEN AddLog(st, s, "SQL", q) ELSE st

\* helpers stop adding to spans once the spans hold MaxEntries marks
Room(s) == s = NilSpan \/ Entries(spans) < MaxEntries

CallFinish ==
    \E s \in SpanArgs :
        LET st == Finish(Here, s)
        IN  /\ Room(s)
            /\ spans' = st.spans
            /\ faulted' = st.faulted
            /\ last' = [ NoCall EXCEPT !.op = "Finish", !.span0 = s,
                                       !.n0 = Len(spans), !.gt = globalTracer ]
            /\ UNCHANGED globalTracer

CallAddLog ==
    \E s \in SpanArgs, v \in Values :
        LET st == AddLog(Here, s, BagKey, v)
        IN  /\ Room(s)
            /\ spans' = st.spans
            /\ faulted' = st.faulted
            /\ last' = [ NoCall EXCEPT !.op = "AddLog", !.span0 = s, !.key = BagKey,
                                       !.val = v, !.n0 = Len(spans), !.gt = globalTracer ]
            /\ UNCHANGED globalTracer

CallAddTag ==
    \E s \in SpanArgs, v \in Values :
        LET st == AddTag(Here, s, BagKey, v)
        IN  /\ Room(s)
            /\ spans' = st.spans
            /\ faulted' = st.faulted
            /\ last' = [ NoCall EXCEPT !.op = "AddTag", !.span0 = s, !.key = BagKey,
                                       !.val = v, !.n0 = Len(spans), !.gt = globalTracer ]
            /\ UNCHANGED globalTracer

CallAddBaggage ==
    \E s \in SpanArgs, v \in Values :
        LET st == AddBaggage(Here, s, BagKey, v)
        IN  /\ Room(s)
            /\ spans' = st.spans
            /\ faulted' = st.faulted
            /\ last' = [ NoCall EXCEPT !.op = "AddBaggage", !.span0 = s, !.key = BagKey,
                                       !.val = v, !.n0 = Len(spans), !.gt = globalTracer ]
            /\ UNCHANGED globalTracer

CallTraceError ==
    \E s \in SpanArgs, e \in Errors :
        LET st == TraceError(Here, s, e)
        IN  /\ s = NilSpan \/ Entries(spans) + 1 < MaxEntries
            /\ spans' = st.spans
            /\ faulted' = st.faulted
            /\ last' = [ NoCall EXCEPT !.op = "TraceError", !.span0 = s, !.val = e,
                                       !.n0 = Len(spans), !.gt = globalTracer ]
            /\ UNCHANGED globalTracer

CallTraceSQLQuery ==
    \E s \in SpanArgs, q \in Queries :
        LET st == TraceSQLQuery(Here, s, q)
        IN  /\ Room(s)
            /\ spans' = st.spans
            /\ faulted' = st.faulted
            /\ last' = [ NoCall EXCEPT !.op = "TraceSQLQuery", !.span0 = s, !.val = q,
                                       !.n0 = Len(spans), !.gt = globalTracer ]
            /\ UNCHANGED globalTracer

(* ------------------------- span factories ------------------------------- *)
\* a factory returns [st, span, ctx]: the machine state it leaves, the span handle
\* and the context it hands back

\* StartSpanFromContext: a span from the context when the context is not nil;
\* opentracing.StartSpanFromContext makes it a child of the context's span, if any,
\* and returns a context that holds the new span
StartSpanFromContext(st, ctx, operationName) ==
    IF ctx # NilCtx THEN
        LET parentSpan == SpanFromContext(ctx)
            ref == IF parentSpan # NilSpan THEN ContextOf(st.spans[parentSpan]) ELSE NoContext
            n == Len(st.spans) + 1
        IN  [ st |-> [ st EXCEPT !.spans = Append(@, GlobalStartSpan(st.spans, operationName, ref)) ],
              span |-> n,
              ctx |-> ContextWithSpan(ctx, n) ]
    ELSE [ st |-> st, span |-> NilSpan, ctx |-> ctx ]

\* "DB-" + operationName
DBName(operationName) == IF operationName = "op" THEN "DB-op" ELSE "DB-?"

StartDBSpan(st, ctx, operationName) ==
    StartSpanFromContext(st, ctx, DBName(operationName))

\* whether a call with this context starts a span
Starts(ctx) == ctx # NilCtx
CanStart == Len(spans) < MaxSpans

Returned(op, r) ==
    [ NoCall EXCEPT !.op = op, !.span1 = r.span, !.ctx1 = r.ctx,
                    !.n0 = Len(spans), !.gt = globalTracer ]

CallStartSpanFromContext ==
    \E ctx \in CtxArgs, name \in Names :
        LET r == StartSpanFromContext(Here, ctx, name)
        IN  /\ Starts(ctx) => CanStart
            /\ spans' = r.st.spans
            /\ faulted' = r.st.faulted
            /\ last' = [ Returned("StartSpanFromContext", r) EXCEPT !.ctx0 = ctx ]
            /\ UNCHANGED globalTracer

CallStartDBSpan ==
    \E ctx \in CtxArgs, name \in Names :
        LET r == StartDBSpan(Here, ctx, name)
        IN  /\ Starts(ctx) => CanStart
            /\ spans' = r.st.spans
            /\ faulted' = r.st.faulted
            /\ last' = [ Returned("StartDBSpan", r) EXCEPT !.ctx0 = ctx ]
            /\ UNCHANGED globalTracer

\* ExtractRequestHeader: the global tracer's Extract on the request's headers
ExtractRequestHeader(req) == Extract(globalTracer, req)

\* StartSpan that drops the extracted context and always starts a root span
StartSpanResultNoParent(st, req, operationName) ==
    LET n == Len(st.spans) + 1
        st1 == [ st EXCEPT !.spans = Append(@, GlobalStartSpan(st.spans, operationName, NoContext)) ]
        st2 == DoSetTag(st1, n, "http.method", Method)
        st3 == DoSetTag(st2, n, "http.url", Url)
        abTraceID == Get(req, TraceIDKey)
        st4 == IF abTraceID # "" THEN AddTag(st3, n, TraceIDKey, abTraceID) ELSE st3
    IN  [ st |-> st4, span |-> n, ctx |-> ContextWithSpan(EmptyCtx, n) ]

\* StartSpan: child of the extracted context, or a root span when extraction fails;
\* tagged with method, URL and, when present, the application trace id
StartSpanResult(st, req, operationName) ==
    LET ex == ExtractRequestHeader(req)
        n == Len(st.spans) + 1
        span == IF ex.err THEN GlobalStartSpan(st.spans, operationName, NoContext)
                ELSE GlobalStartSpan(st.spans, operationName, ex.ctx)
        st1 == [ st EXCEPT !.spans = Append(@, span) ]
        st2 == DoSetTag(st1, n, "http.method", Method)
        st3 == DoSetTag(st2, n, "http.url", Url)
        abTraceID == Get(req, TraceIDKey)
        st4 == IF abTraceID # "" THEN AddTag(st3, n, TraceIDKey, abTraceID) ELSE st3
    IN  [ st |-> st4, span |-> n, ctx |-> ContextWithSpan(EmptyCtx, n) ]

StartSpan ==
    \E req \in InRequests, name \in Names :
        LET r == StartSpanResult(Here, req, name)
        IN  /\ CanStart
            /\ spans' = r.st.spans
            /\ faulted' = r.st.faulted
            /\ last' = [ Returned("StartSpan", r) EXCEPT !.inHdr = req ]
            /\ UNCHANGED globalTracer

\* StartSpanIfParentSpanExist falling back to a root span as StartSpan does
StartSpanIfParentSpanExistRoot(st, req, operationName) ==
    StartSpanResult(st, req, operationName)

\* StartSpanIfParentSpanExist: as StartSpan, but no span when extraction fails
StartSpanIfParentSpanExistResult(st, req, operationName) ==
    LET ex == ExtractRequestHeader(req)
        n == Len(st.spans) + 1
        span == GlobalStartSpan(st.spans, operationName, ex.ctx)
        st1 == [ st EXCEPT !.spans = Append(@, span) ]
        st2 == DoSetTag(st1, n, "http.method", Method)
        st3 == DoSetTag(st2, n, "http.url", Url)
        abTraceID == Get(req, TraceIDKey)
        st4 == IF abTraceID # "" THEN AddTag(st3, n, TraceIDKey, abTraceID) ELSE st3
    IN  IF ex.err THEN [ st |-> st, span |-> NilSpan, ctx |-> NilCtx ]
        ELSE [ st |-> st4, span |-> n, ctx |-> ContextWithSpan(EmptyCtx, n) ]

StartSpanIfParentSpanExist ==
    \E req \in InRequests, name \in Names :
        LET r == StartSpanIfParentSpanExistResult(Here, req, name)
        IN  /\ r.span # NilSpan => CanStart
            /\ spans' = r.st.spans
            /\ faulted' = r.st.faulted
            /\ last' = [ Returned("StartSpanIfParentSpanExist", r) EXCEPT !.inHdr = req ]
            /\ UNCHANGED globalTracer

\* ChildSpanFromRemoteSpan: child of the parsed context, returned with rootCtx
\* itself; when the string does not parse, StartSpanFromContext(rootCtx, name)
ChildSpanFromRemoteSpanResult(st, rootCtx, name, spanContextStr) ==
    LET parsed == ContextFromString(spanContextStr)
        n == Len(st.spans) + 1
    IN  IF ~parsed.err THEN
            [ st |-> [ st EXCEPT !.spans = Append(@, GlobalStartSpan(st.spans, name, parsed.ctx)) ],
              span |-> n,
              ctx |-> rootCtx ]
        ELSE StartSpanFromContext(st, rootCtx, name)

ChildSpanFromRemoteSpan ==
    \E rootCtx \in CtxArgs, name \in Names, str \in ContextStrings :
        LET r == ChildSpanFromRemoteSpanResult(Here, rootCtx, name, str)
        IN  /\ r.span # NilSpan => CanStart
            /\ spans' = r.st.spans
            /\ faulted' = r.st.faulted
            /\ last' = [ Returned("ChildSpanFromRemoteSpan", r) EXCEPT
                             !.ctx0 = rootCtx, !.val = str ]
            /\ UNCHANGED globalTracer

\* StartChildSpan: child of the given span, absent when the span is absent
StartChildSpanResult(st, span, name) ==
    IF span # NilSpan THEN
        [ st |-> [ st EXCEPT !.spans =
                       Append(@, GlobalStartSpan(st.spans, name, ContextOf(st.spans[span]))) ],
          span |-> Len(st.spans) + 1,
          ctx |-> NilCtx ]
    ELSE [ st |-> st, span |-> NilSpan, ctx |-> NilCtx ]

StartChildSpan ==
    \E span \in SpanArgs, name \in Names :
        LET r == StartChildSpanResult(Here, span, name)
        IN  /\ r.span # NilSpan => CanStart
            /\ spans' = r.st.spans
            /\ faulted' = r.st.faulted
            /\ last' = [ Returned("StartChildSpan", r) EXCEPT !.span0 = span ]
            /\ UNCHANGED globalTracer

(* ------------------------- propagation ---------------------------------- *)
\* the forwarding loop stopping one header short of the end of the list
RECURSIVE ForwardSkipLast(_, _, _)
ForwardSkipLast(inHdr, outHdr, i) ==
    IF i >= Len(forwardHeaders) THEN outHdr
    ELSE LET header == forwardHeaders[i]
             value == Get(inHdr, header)
         IN  ForwardSkipLast(inHdr,
                             IF value # "" THEN Set(outHdr, header, value) ELSE outHdr,
                             i + 1)

\* the loop over forwardHeaders[i..]: a header of the list whose value on the
\* inbound request is not "" is set on the outbound request
RECURSIVE Forward(_, _, _)
Forward(inHdr, outHdr, i) ==
    IF i > Len(forwardHeaders) THEN outHdr
    ELSE LET header == forwardHeaders[i]
             value == Get(inHdr, header)
         IN  Forward(inHdr,
                     IF value # "" THEN Set(outHdr, header, value) ELSE outHdr,
                     i + 1)

\* InjectTrace that goes on to copy headers when it has no span
InjectTraceResultNoEarlyExit(st, ctx, incomingReq, outgoingReq) ==
    LET r == StartSpanFromContext(st, ctx, "outgoing request")
        st1 == DoSetTag(r.st, r.span, "http.url", Url)
        st2 == DoSetTag(st1, r.span, "http.method", Method)
        injected == IF r.span # NilSpan
                    THEN Inject(st2.spans[r.span].tracer, st2.spans[r.span], outgoingReq).hdr
                    ELSE outgoingReq
        forwarded == Forward(incomingReq, injected, 1)
        abTraceID == Get(incomingReq, TraceIDKey)
        hdr == IF abTraceID # "" THEN Set(forwarded, TraceIDKey, abTraceID) ELSE forwarded
    IN  IF r.span # NilSpan
        THEN [ st |-> st2, span |-> r.span, ctx |-> r.ctx, hdr |-> hdr ]
        ELSE [ st |-> r.st, span |-> NilSpan, ctx |-> NilCtx, hdr |-> hdr ]

\* InjectTrace returns [st, span, ctx, hdr]
InjectTraceResult(st, ctx, incomingReq, outgoingReq) ==
    LET r == StartSpanFromContext(st, ctx, "outgoing request")
        st1 == DoSetTag(r.st, r.span, "http.url", Url)
        st2 == DoSetTag(st1, r.span, "http.method", Method)
        injected == Inject(st2.spans[r.span].tracer, st2.spans[r.span], outgoingReq).hdr
        forwarded == Forward(incomingReq, injected, 1)
        abTraceID == Get(incomingReq, TraceIDKey)
        hdr == IF abTraceID # "" THEN Set(forwarded, TraceIDKey, abTraceID) ELSE forwarded
    IN  IF r.span # NilSpan
        THEN [ st |-> st2, span |-> r.span, ctx |-> r.ctx, hdr |-> hdr ]
        ELSE [ st |-> r.st, span |-> NilSpan, ctx |-> NilCtx, hdr |-> outgoingReq ]

InjectTrace ==
    \E ctx \in CtxArgs, incomingReq \in BridgeRequests, outgoingReq \in OutRequests :
        LET r == InjectTraceResult(Here, ctx, incomingReq, outgoingReq)
        IN  /\ r.span # NilSpan => CanStart
            /\ spans' = r.st.spans
            /\ faulted' = r.st.faulted
            /\ last' = [ Returned("InjectTrace", r) EXCEPT
                             !.ctx0 = ctx, !.inHdr = incomingReq,
                             !.out0 = outgoingReq, !.out1 = r.hdr ]
            /\ UNCHANGED globalTracer

\* InjectSpanIntoRequest discarding the error of Inject
InjectSpanIntoRequestSwallow(st, span, req) ==
    IF span # NilSpan
    THEN [ err |-> NoErr, hdr |-> Inject(globalTracer, st.spans[span], req).hdr ]
    ELSE [ err |-> NoErr, hdr |-> req ]

\* InjectSpanIntoRequest returns the error of the global tracer's Inject
InjectSpanIntoRequestResult(st, span, req) ==
    IF span # NilSpan THEN Inject(globalTracer, st.spans[span], req)
    ELSE [ err |-> NoErr, hdr |-> req ]

InjectSpanIntoRequest ==
    \E span \in SpanArgs, req \in OutRequests :
        LET r == InjectSpanIntoRequestResult(Here, span, req)
        IN  /\ last' = [ NoCall EXCEPT !.op = "InjectSpanIntoRequest", !.span0 = span,
                                       !.out0 = req, !.out1 = r.hdr, !.err = r.err,
                                       !.n0 = Len(spans), !.gt = globalTracer ]
            /\ UNCHANGED << globalTracer, spans, faulted >>

(* ------------------------- specifications ------------------------------ *)
\* the span factories
NextFactory ==
    \/ InitGlobalTracer
    \/ StartSpan
    \/ StartSpanIfParentSpanExist
    \/ ChildSpanFromRemoteSpan
    \/ CallStartDBSpan
    \/ CallStartSpanFromContext
    \/ StartChildSpan

SpecFactory == Init /\ [][NextFactory]_vars

\* outbound propagation, over spans started from a context
NextBridge ==
    \/ InitGlobalTracer
    \/ CallStartSpanFromContext
    \/ CallAddBaggage
    \/ InjectTrace
    \/ InjectSpanIntoRequest

SpecBridge == Init /\ [][NextBridge]_vars

\* the helpers, over spans started from a context with the tracer installed
NextFacade ==
    \/ CallStartSpanFromContext
    \/ CallFinish
    \/ CallAddLog
    \/ CallAddTag
    \/ CallAddBaggage
    \/ CallTraceError
    \/ CallTraceSQLQuery

SpecFacade == InitInstalled /\ [][NextFacade]_vars

(* ------------------------- claims: vocabulary --------------------------- *)
\* the request carries a well-formed context in the tracer's own header
ValidNative(h) ==
    h[NativeHeader] # <<>> /\ ~ContextFromString(h[NativeHeader][1]).err

\* the request carries a well-formed B3 context: trace and span identifier
ValidB3(h) ==
    /\ h["x-b3-traceid"] # <<>> /\ ParseHex(h["x-b3-traceid"][1]) > 0
    /\ h["x-b3-spanid"] # <<>> /\ ParseHex(h["x-b3-spanid"][1]) > 0

\* the trace identifier of the context the request carries
InboundTrace(h) ==
    IF ValidB3(h) THEN ParseHex(h["x-b3-traceid"][1])
    ELSE ContextFromString(h[NativeHeader][1]).ctx.trace

\* header extraction fails for the call recorded in last
ExtractionFailed == Extract(last.gt, last.inHdr).err

RequestFactories == { "StartSpan", "StartSpanIfParentSpanExist" }

CarrierFactories ==
    { "StartSpan", "StartSpanIfParentSpanExist", "StartSpanFromContext",
      "StartDBSpan", "ChildSpanFromRemoteSpan", "InjectTrace" }

AllowListed(k) == k \in Range(forwardHeaders)

\* what the span's own tracer injects into an empty header collection
InjectedFor(s) == Inject(spans[s].tracer, spans[s], NoHeaders).hdr

(* ------------------------- C1 ------------------------------------------- *)
\* C1: when header extraction fails for the inbound request (no recognized header,
\* or an unparsable one), StartSpan returns a present root span (no parent, a new
\* span) with a carrier, and StartSpanIfParentSpanExist returns an absent span and
\* an absent carrier and starts no span.
C1_ExtractionFailure ==
    /\ (last.op = "StartSpan" /\ ExtractionFailed) =>
           /\ last.span1 # NilSpan
           /\ last.span1 = last.n0 + 1
           /\ Len(spans) = last.n0 + 1
           /\ spans[last.span1].parent = 0
           /\ last.ctx1 # NilCtx
    /\ (last.op = "StartSpanIfParentSpanExist" /\ ExtractionFailed) =>
           /\ last.span1 = NilSpan
           /\ last.ctx1 = NilCtx
           /\ Len(spans) = last.n0

\* StartSpanIfParentSpanExist was called, with the jaeger tracer installed, on a
\* request whose B3 trace id does not parse, after another span had been started
C1_Witness ==
    /\ last.op = "StartSpanIfParentSpanExist"
    /\ last.gt = "jaeger"
    /\ last.inHdr["x-b3-traceid"] = << "zz" >>
    /\ last.span1 = NilSpan
    /\ Len(spans) > 0

(* ------------------------- C2 ------------------------------------------- *)
\* C2 as stated: with the tracer of InitGlobalTracer installed, a request carrying
\* a valid context in either encoding (the tracer's own header or B3) yields, from
\* StartSpan and StartSpanIfParentSpanExist, a span in the inbound trace.
C2_EitherEncoding ==
    ( /\ last.op \in RequestFactories
      /\ last.gt = "jaeger"
      /\ (ValidNative(last.inHdr) \/ ValidB3(last.inHdr)) ) =>
        /\ last.span1 # NilSpan
        /\ spans[last.span1].trace = InboundTrace(last.inHdr)

\* C2 amended: with the tracer of InitGlobalTracer installed, a request carrying a
\* valid B3 context (trace id and span id) yields, from StartSpan and
\* StartSpanIfParentSpanExist, a child of that context: same trace id, the inbound
\* span as parent.
C2_B3ChildOf ==
    ( /\ last.op \in RequestFactories
      /\ last.gt = "jaeger"
      /\ ValidB3(last.inHdr) ) =>
        /\ last.span1 # NilSpan
        /\ spans[last.span1].trace = InboundTrace(last.inHdr)
        /\ spans[last.span1].parent = ParseHex(last.inHdr["x-b3-spanid"][1])

\* StartSpan was called with the jaeger tracer installed on a request with a valid
\* B3 context
C2_Witness ==
    /\ last.op = "StartSpan"
    /\ last.gt = "jaeger"
    /\ ValidB3(last.inHdr)
    /\ spans[last.span1].trace = 1

(* ------------------------- C10 ------------------------------------------ *)
\* C10: with the tracer installed, every factory that returns a span with a carrier
\* returns, whenever the span is present, a carrier whose current span is that span.
C10_CarrierHoldsSpan ==
    (last.op \in CarrierFactories /\ last.gt = "jaeger" /\ last.span1 # NilSpan) =>
        /\ last.ctx1 # NilCtx
        /\ SpanFromContext(last.ctx1) = last.span1

(* ------------------------- C3 ------------------------------------------- *)
\* C3 as stated: with the tracer installed, after an InjectTrace that propagates a
\* span, the outbound headers are exactly the allow-listed headers present on the inbound request, copied
\* verbatim, plus the headers the tracer injected for the new span.
C3_ExactlyAllowList ==
    (last.op = "InjectTrace" /\ last.gt = "jaeger" /\ last.span1 # NilSpan) =>
        \A k \in HeaderNames :
            last.out1[k] =
                IF AllowListed(k) /\ last.inHdr[k] # <<>> THEN last.inHdr[k]
                ELSE InjectedFor(last.span1)[k]

\* C3 amended: after an InjectTrace that propagates a span, each outbound header is
\* the first inbound value alone when the name is allow-listed or X-Ab-TraceID and
\* that first value is not empty; otherwise the value the tracer injected for the
\* new span when it injects that name; otherwise what the outbound request already
\* carried.  No other inbound header is copied.
C3_ForwardedHeaders ==
    (last.op = "InjectTrace" /\ last.span1 # NilSpan) =>
        \A k \in HeaderNames :
            last.out1[k] =
                IF (AllowListed(k) \/ k = TraceIDKey) /\ Get(last.inHdr, k) # ""
                THEN << Get(last.inHdr, k) >>
                ELSE IF InjectedFor(last.span1)[k] # <<>>
                THEN InjectedFor(last.span1)[k]
                ELSE last.out0[k]

\* InjectTrace propagated a jaeger span for an inbound request with the last
\* allow-listed header, the application trace id and a header that is not forwarded,
\* onto an outbound request that had headers of its own
C3_Witness ==
    /\ last.op = "InjectTrace"
    /\ last.span1 # NilSpan
    /\ spans[last.span1].tracer = "jaeger"
    /\ last.inHdr["grpc-trace-bin"] = << "bin" >>
    /\ last.inHdr[TraceIDKey] = << "T1" >>
    /\ last.inHdr["x-other"] # <<>>
    /\ last.out0["x-other"] = << "own" >>
    /\ last.out1["x-b3-traceid"] # <<>>

(* ------------------------- C4 ------------------------------------------- *)
\* C4: when the inbound request carries a (non-empty) X-Ab-TraceID, the outbound
\* request returned by InjectTrace carries the same value, whether or not the call
\* has a span to propagate.
C4_TraceIDAlwaysForwarded ==
    (last.op = "InjectTrace" /\ Get(last.inHdr, TraceIDKey) # "") =>
        Get(last.out1, TraceIDKey) = Get(last.inHdr, TraceIDKey)

(* ------------------------- C5 ------------------------------------------- *)
\* C5 as stated: with the tracer installed, when the carrier given to InjectTrace
\* holds no current span, InjectTrace starts no span and returns the outbound request unmodified with an
\* absent span and an absent carrier.
C5_NoCurrentSpan ==
    ( /\ last.op = "InjectTrace"
      /\ last.gt = "jaeger"
      /\ SpanFromContext(last.ctx0) = NilSpan ) =>
        /\ Len(spans) = last.n0
        /\ last.out1 = last.out0
        /\ last.span1 = NilSpan
        /\ last.ctx1 = NilCtx

\* C5 amended: when the carrier given to InjectTrace is absent (nil), InjectTrace
\* starts no span and returns the outbound request unmodified with an absent span
\* and an absent carrier.
C5_NilCarrier ==
    (last.op = "InjectTrace" /\ last.ctx0 = NilCtx) =>
        /\ Len(spans) = last.n0
        /\ last.out1 = last.out0
        /\ last.span1 = NilSpan
        /\ last.ctx1 = NilCtx

\* InjectTrace was called with a nil carrier for an inbound request that has
\* headers to forward
C5_Witness ==
    /\ last.op = "InjectTrace"
    /\ last.ctx0 = NilCtx
    /\ last.inHdr["x-request-id"] = << "abc123" >>
    /\ last.inHdr[TraceIDKey] = << "T1" >>
    /\ last.out0 = NoHeaders

(* ------------------------- C8 ------------------------------------------- *)
\* C8 as stated: no span-creation or propagation operation returns an error value.
C8_NoErrorSurfaced == last.err = NoErr

\* C8 amended: InjectTrace returns no error, and InjectSpanIntoRequest returns an
\* error exactly when the span is present and the global tracer's Inject rejects its
\* context (a span that the installed jaeger tracer did not start); the request's
\* headers are then left as they were.
C8_InjectErrorReturned ==
    /\ last.op # "InjectSpanIntoRequest" => last.err = NoErr
    /\ last.op = "InjectSpanIntoRequest" =>
           /\ last.err # NoErr <=>
                  /\ last.span0 # NilSpan
                  /\ globalTracer = "jaeger"
                  /\ spans[last.span0].tracer # "jaeger"
           /\ last.err # NoErr => last.out1 = last.out0

\* InjectSpanIntoRequest returned an error
C8_Witness ==
    /\ last.op = "InjectSpanIntoRequest"
    /\ last.span0 # NilSpan
    /\ last.err # NoErr

(* ------------------------- C6 ------------------------------------------- *)
AbsentSafeHelpers == { "AddTag", "AddLog", "AddBaggage", "Finish", "TraceError" }

\* C6: AddTag, AddLog, AddBaggage, Finish and TraceError called with an absent span
\* never fault and leave every span (tags, logs, baggage, finished) as it was.
C6_AbsentSpanNoOp ==
    [][ (last'.op \in AbsentSafeHelpers /\ last'.span0 = NilSpan) =>
            (spans' = spans /\ ~faulted /\ ~faulted') ]_vars

\* TraceError was called with an absent span and an error while a span exists
C6_Witness ==
    /\ last.op = "TraceError"
    /\ last.span0 = NilSpan
    /\ last.val = "boom"
    /\ Len(spans) > 0

(* ------------------------- C7 ------------------------------------------- *)
EmptyValueHelpers == { "AddTag", "AddLog", "AddBaggage", "TraceSQLQuery" }

\* C7 as stated: AddTag, AddLog, AddBaggage and TraceSQLQuery called on a present
\* span with an empty value leave the span's tags, logs and baggage unchanged.
C7_EmptyValueNoOp ==
    [][ ( /\ last'.op \in EmptyValueHelpers
          /\ last'.span0 # NilSpan
          /\ last'.val = "" ) => spans' = spans ]_vars

\* C7 amended: TraceSQLQuery called on a present span with an empty query leaves
\* the span unchanged; AddTag, AddLog and AddBaggage called with an empty value
\* record it: the tag, the log entry or the baggage item with the empty value.
C7_EmptyValueRecorded ==
    [][ (last'.span0 # NilSpan /\ last'.val = "") =>
            LET s == last'.span0 IN
            /\ last'.op = "TraceSQLQuery" => spans' = spans
            /\ last'.op = "AddTag" =>
                   spans' = [ spans EXCEPT ![s].tags = Append(@, << last'.key, "" >>) ]
            /\ last'.op = "AddLog" =>
                   spans' = [ spans EXCEPT ![s].logs = Append(@, << last'.key, "" >>) ]
            /\ last'.op = "AddBaggage" =>
                   spans' = [ spans EXCEPT ![s].bag = "" ] ]_vars

\* TraceSQLQuery was called on a present span with the empty query
C7_Witness ==
    /\ last.op = "TraceSQLQuery"
    /\ last.span0 # NilSpan
    /\ last.val = ""

(* ------------------------- C9 ------------------------------------------- *)
\* C9: TraceError called on a present span with an error appends one log entry
\* "error" with the error's message and the tag error=true to that span and changes
\* nothing else; called with no error it leaves every span unchanged.
C9_TraceError ==
    [][ (last'.op = "TraceError" /\ last'.span0 # NilSpan) =>
            LET s == last'.span0 IN
            /\ faulted' = faulted
            /\ IF last'.val # NoErr
               THEN spans' = [ spans EXCEPT
                                  ![s].logs = Append(@, << "error", last'.val >>),
                                  ![s].tags = Append(@, << "error", "true" >>) ]
               ELSE spans' = spans ]_vars

\* TraceError was called on a present span with an error
C9_Witness ==
    /\ last.op = "TraceError"
    /\ last.span0 # NilSpan
    /\ last.val = "boom"
    /\ spans[last.span0].tags # <<>>

====
